---- MODULE Spec2Model ----
(***************************************************************************)
(* Defect tracking and triage engine of web_tracker.py: the Defect model,  *)
(* the DefectLog, and the TrackerController with its pickle persistence.   *)
(*                                                                         *)
(* Strings that the code lower-cases (ids, task names) are sequences of    *)
(* ASCII character codes, so that str.lower() is computed, not assumed.    *)
(* Opaque strings (user names, resolution details) are TLA+ strings.       *)
(***************************************************************************)
EXTENDS Integers, Sequences, FiniteSets, TLC

\* ------------------------------------------------------------------------
\* Bounds of the model
\* ------------------------------------------------------------------------
\* Number of Defect objects constructed over a run (object identities 1..MaxReports).
MaxReports == 3
\* Largest reading of datetime.now(), in clock ticks.
MaxClock == 1
\* Number of writes of database.pkl that fail over a run.
MaxWriteFailures == 1
\* Number of commands a script thread issues while another may be running.
MaxCalls == 2
\* Seconds in the short advance of the clock between two looks at the table.
TickSeconds == 30
\* Largest number of seconds past the hour the clock is advanced to.
MaxOffset == 90
\* Largest number of whole hours the clock is advanced to.
MaxHours == 1
\* divmod(..., 3600) and divmod(..., 60) of get_aging
SecondsPerHour == 3600
SecondsPerMinute == 60

\* ------------------------------------------------------------------------
\* Input alphabets
\* ------------------------------------------------------------------------
IdD1 == <<68, 49>>              \* "D1"
Idd1 == <<100, 49>>             \* "d1"
IdD2 == <<68, 50>>              \* "D2"
TaskT == <<84>>                 \* "T"
Taskt == <<116>>                \* "t"
TaskU == <<85>>                 \* "U"
DescWire == <<87, 105, 114, 101>>        \* "Wire"
DescDent == <<100, 101, 110, 116>>       \* "dent"
DescLoose == <<108, 111, 111, 115, 101>> \* "loose"

\* The defects the presentation layer submits (form "log_defect").
ReportInputs ==
    { [kind |-> "Critical", id |-> IdD1, task |-> TaskT, desc |-> DescWire,  user |-> "W1"],
      [kind |-> "Minor",    id |-> IdD1, task |-> Taskt, desc |-> DescDent,  user |-> "W2"],
      [kind |-> "Minor",    id |-> IdD2, task |-> TaskU, desc |-> DescLoose, user |-> "W1"] }

\* The two of them submitted where writes may fail and the process restart.
DurableReportInputs == {inp \in ReportInputs : inp.user = "W1"}

\* Task names typed into "Task Name to Analyze".
QueryTasks == {TaskT, Taskt, TaskU}

\* Pieces of the descriptions submitted for analysis, and the descriptions:
\* one piece, or two pieces one after the other.
FragWire == <<87, 105, 114, 101>>                   \* "Wire"
FragSpace == <<32>>                                  \* " "
FragPAINT == <<80, 65, 73, 78, 84>>                  \* "PAINT"
FragLoose == <<108, 111, 111, 115, 101>>             \* "loose"
FragPar == <<112, 97, 114>>                        \* "par"
FragT == <<116>>                                 \* "t"
FragBug == <<98, 117, 103>>                        \* "bug"
FragDent == <<100, 101, 110, 116>>                  \* "dent"
FragWir == <<119, 105, 114>>                       \* "wir"

Fragments == {FragWire, FragSpace, FragPAINT, FragLoose, FragPar, FragT, FragBug, FragDent, FragWir}

SuggestDescs == Fragments \cup {a \o b : a \in Fragments, b \in Fragments}

SuggestInputs ==
    { [kind |-> k, id |-> IdD1, task |-> TaskT, desc |-> desc, user |-> "W1"] :
        k \in {"Minor", "Critical"}, desc \in SuggestDescs }

\* Ids typed into "Defect ID to Resolve".
QueryIds == {IdD1, Idd1, IdD2}
\* Who resolves, and with which details ("Manual Resolve", "Apply fix to ...").
ResolveInputs ==
    { [manager_name |-> "M1", details |-> "Fixed by manual protocol."],
      [manager_name |-> "M2", details |-> "Smart Fix"] }

\* Outcomes of one write of database.pkl: the write completes; open() raises
\* and the file is untouched; open(..., 'wb') truncates the file and
\* pickle.dump raises, leaving a file pickle.load cannot read.
WriteOutcomes == {"ok", "open_failed", "dump_failed"}

\* None, for resolved_at.
None == -1

VARIABLES
    defects,    \* controller.log_database.defects: sequence of Defect records
    disk,       \* database.pkl: [kind: absent | ok | corrupt, log: pickled defects]
    clock,      \* the current reading of datetime.now()
    nextUid,    \* identity of the next Defect object constructed
    lastOp,     \* the operation performed by the latest step
    arg,        \* its arguments
    outcome,    \* what it reported to its caller: return value or exception raised
    cmdWrite,   \* the write of database.pkl it attempted: none | ok | failed
    lastWrite,  \* result of the latest write attempt so far: none | ok | failed
    audit,      \* lines it appended to system_audit.log
    failures,   \* number of failed writes of database.pkl so far
    result,     \* value returned by the latest query
    threads,    \* the calls in progress, one per script thread of the server
    heap        \* the Defect objects those calls constructed, by identity

vars == <<defects, disk, clock, nextUid, lastOp, arg, outcome, cmdWrite, lastWrite, audit,
          failures, result, threads, heap>>

\* ------------------------------------------------------------------------
\* Strings
\* ------------------------------------------------------------------------
LowerChar(c) == IF c \in 65..90 THEN c + 32 ELSE c

\* str.lower()
Lower(s) == [i \in DOMAIN s |-> LowerChar(s[i])]

\* ------------------------------------------------------------------------
\* Defect model
\* ------------------------------------------------------------------------
\* Defect.__init__ through MinorDefect / CriticalDefect
NewDefect(uid, inp, now) ==
    [uid |-> uid, kind |-> inp.kind, id |-> inp.id, task_name |-> inp.task,
     description |-> inp.desc, logged_by |-> inp.user,
     is_resolved |-> FALSE, resolved_by |-> "None", resolution_details |-> "Pending",
     logged_at |-> now, resolved_at |-> None]

\* Bug: the guard is missing, so a second resolve overwrites the first.
ResolveRaises_Never(d) == FALSE

\* Defect.resolve: the guard that raises DefectAlreadyResolvedException
ResolveRaises(d) == d.is_resolved

\* Bug: resolve forgets to stamp resolved_at.
Resolve_NoTimestamp(d, resolver_name, details, now) ==
    [d EXCEPT !.is_resolved = TRUE, !.resolved_by = resolver_name,
              !.resolution_details = details]

\* Defect.resolve, past its guard
Resolve(d, resolver_name, details, now) ==
    [d EXCEPT !.is_resolved = TRUE, !.resolved_by = resolver_name,
              !.resolution_details = details, !.resolved_at = now]

\* Bug: the age is always measured to the current time.
GetAging_AlwaysNow(d, now) ==
    LET duration == now - d.logged_at
        hours == duration \div SecondsPerHour
        remainder == duration % SecondsPerHour
        minutes == remainder \div SecondsPerMinute
    IN  <<hours, minutes>>

\* Defect.get_aging: <<h, m>> stands for the string f"{h}h {m}m"
GetAging(d, now) ==
    LET end_time == IF d.is_resolved THEN d.resolved_at ELSE now
        duration == end_time - d.logged_at
        hours == duration \div SecondsPerHour
        remainder == duration % SecondsPerHour
        minutes == remainder \div SecondsPerMinute
    IN  <<hours, minutes>>

GetPriorityWeight(d) == IF d.kind = "Critical" THEN 10 ELSE 1

GetImpactLevel(d) == IF d.kind = "Critical" THEN "CRITICAL" ELSE "Minor"

\* Bug: the resolved-status tier is missing from the comparison.
Lt_NoResolvedTier(self, other) ==
    LET priority_diff == GetPriorityWeight(other) - GetPriorityWeight(self)
    IN  IF priority_diff # 0 THEN priority_diff < 0
        ELSE self.logged_at > other.logged_at

\* Bug: the sign of the priority test is flipped.
Lt_PriorityFlipped(self, other) ==
    IF self.is_resolved /\ ~other.is_resolved THEN FALSE
    ELSE IF ~self.is_resolved /\ other.is_resolved THEN TRUE
    ELSE LET priority_diff == GetPriorityWeight(other) - GetPriorityWeight(self)
         IN  IF priority_diff # 0 THEN priority_diff > 0
             ELSE self.logged_at > other.logged_at

\* Bug: the last tier compares resolved_at instead of logged_at.
Lt_ByResolvedAt(self, other) ==
    IF self.is_resolved /\ ~other.is_resolved THEN FALSE
    ELSE IF ~self.is_resolved /\ other.is_resolved THEN TRUE
    ELSE LET priority_diff == GetPriorityWeight(other) - GetPriorityWeight(self)
         IN  IF priority_diff # 0 THEN priority_diff < 0
             ELSE self.resolved_at > other.resolved_at

\* Defect.__lt__
Lt(self, other) ==
    IF self.is_resolved /\ ~other.is_resolved THEN FALSE
    ELSE IF ~self.is_resolved /\ other.is_resolved THEN TRUE
    ELSE LET priority_diff == GetPriorityWeight(other) - GetPriorityWeight(self)
         IN  IF priority_diff # 0 THEN priority_diff < 0
             ELSE self.logged_at > other.logged_at

\* ------------------------------------------------------------------------
\* Defect log
\* ------------------------------------------------------------------------
AddDefect(log, d) == Append(log, d)

\* Bug: ids are compared without lower-casing them.
FindDefect_CaseSensitive(log, defect_id) ==
    LET hits == {i \in DOMAIN log : log[i].id = defect_id}
    IN  IF hits = {} THEN 0 ELSE CHOOSE i \in hits : \A j \in hits : i <= j

\* Bug: the lookup lands on the latest match instead of the earliest.
FindDefect_LastMatch(log, defect_id) ==
    LET hits == {i \in DOMAIN log : Lower(log[i].id) = Lower(defect_id)}
    IN  IF hits = {} THEN 0 ELSE CHOOSE i \in hits : \A j \in hits : i >= j

\* DefectLog.find_defect: index of the first match, 0 for None
FindDefect(log, defect_id) ==
    LET hits == {i \in DOMAIN log : Lower(log[i].id) = Lower(defect_id)}
    IN  IF hits = {} THEN 0 ELSE CHOOSE i \in hits : \A j \in hits : i <= j

Unresolved(d) == ~d.is_resolved

Resolved(d) == d.is_resolved

\* Bug: the filter is inverted and keeps the resolved defects.
RemoveResolvedDefects_KeepResolved(log) == SelectSeq(log, Resolved)

RemoveResolvedDefects(log) == SelectSeq(log, Unresolved)

\* ------------------------------------------------------------------------
\* Persistence
\* ------------------------------------------------------------------------
\* Bug: the file is opened in append mode, so a readable file keeps its
\* first pickle, which is the one pickle.load returns.
ForceSaveData_AppendMode(file, log, w) ==
    CASE w = "ok" -> IF file.kind = "ok" THEN file ELSE [kind |-> "ok", log |-> log]
      [] w = "open_failed" -> file
      [] w = "dump_failed" -> [kind |-> "corrupt", log |-> <<>>]

\* TrackerController.force_save_data: the file after a write with outcome w
ForceSaveData(file, log, w) ==
    CASE w = "ok" -> [kind |-> "ok", log |-> log]
      [] w = "open_failed" -> file
      [] w = "dump_failed" -> [kind |-> "corrupt", log |-> <<>>]

WriteResult(w) == IF w = "ok" THEN "ok" ELSE "failed"

\* The environment fails at most MaxWriteFailures writes.
MayWrite(w) == w = "ok" \/ failures < MaxWriteFailures

FailuresAfter(w) == IF w = "ok" THEN failures ELSE failures + 1

\* Bug: the except branch passes without logging.
SaveAudit_Silent(w) == <<>>

SaveAudit(w) == IF w = "ok" THEN <<>> ELSE <<"ERROR Failed to save database state">>

\* Bug: the unpickled log is dropped and the controller always starts empty.
LoadData_AlwaysEmpty(file) == <<>>

\* TrackerController.load_data
LoadData(file) == IF file.kind = "ok" THEN file.log ELSE <<>>

\* ------------------------------------------------------------------------
\* Sorting: list(...).sort() is a stable sort driven by __lt__ alone; on
\* lists this short it is a binary insertion sort, which puts each element
\* after every element already placed that it is not less than.
\* ------------------------------------------------------------------------
\* Bug: an element goes in front of the elements it ties with.
InsertSorted_BeforeEquals(sorted, x) ==
    LET after == {i \in 0..Len(sorted) : \A j \in 1..i : Lt(sorted[j], x)}
        pos == CHOOSE i \in after : \A k \in after : i >= k
    IN  SubSeq(sorted, 1, pos) \o <<x>> \o SubSeq(sorted, pos + 1, Len(sorted))

InsertSorted(sorted, x) ==
    LET before == {i \in 0..Len(sorted) : \A j \in (i + 1)..Len(sorted) : Lt(x, sorted[j])}
        pos == CHOOSE i \in before : \A k \in before : i <= k
    IN  SubSeq(sorted, 1, pos) \o <<x>> \o SubSeq(sorted, pos + 1, Len(sorted))

RECURSIVE SortPrefix(_, _)
SortPrefix(log, n) == IF n = 0 THEN <<>> ELSE InsertSorted(SortPrefix(log, n - 1), log[n])

\* TrackerController.get_all_defects_sorted
Sorted(log) == SortPrefix(log, Len(log))

\* Bug: task names are compared as typed.
CountDefectsForTask_CaseSensitive(log, task_name) ==
    Cardinality({i \in DOMAIN log : log[i].task_name = task_name})

\* TrackerController.count_defects_for_task
CountDefectsForTask(log, task_name) ==
    Cardinality({i \in DOMAIN log : Lower(log[i].task_name) = Lower(task_name)})

\* ------------------------------------------------------------------------
\* Resolution engine
\* ------------------------------------------------------------------------
ElectricWords ==
    { <<119, 105, 114, 101>>,                     \* "wire"
      <<118, 111, 108, 116, 97, 103, 101>>,       \* "voltage"
      <<115, 104, 111, 99, 107>>,                 \* "shock"
      <<101, 108, 101, 99, 116, 114, 105, 99>>    \* "electric"
    }

CosmeticWords ==
    { <<115, 99, 114, 97, 116, 99, 104>>,         \* "scratch"
      <<112, 97, 105, 110, 116>>,                 \* "paint"
      <<100, 101, 110, 116>>,                     \* "dent"
      <<99, 111, 115, 109, 101, 116, 105, 99>>    \* "cosmetic"
    }

HardwareWords ==
    { <<109, 105, 115, 115, 105, 110, 103>>,      \* "missing"
      <<115, 99, 114, 101, 119>>,                 \* "screw"
      <<98, 111, 108, 116>>,                      \* "bolt"
      <<112, 97, 114, 116>>                       \* "part"
    }

SoftwareWords ==
    { <<115, 111, 102, 116, 119, 97, 114, 101>>,  \* "software"
      <<99, 114, 97, 115, 104>>,                  \* "crash"
      <<98, 117, 103>>,                           \* "bug"
      <<98, 111, 111, 116>>                       \* "boot"
    }

FixElectric == "Isolate power supply immediately. Replace damaged wiring, perform continuity testing, and verify against safety protocol IEEE-1584."
FixCosmetic == "Route to touch-up station. Buff affected area, reapply surface coating, and verify thickness under QA lighting."
FixHardware == "Perform line-stop. Replenish hardware bins, install missing components, and recalibrate automated dispensers."
FixSoftware == "Extract error logs, flash firmware to the last known stable version, and reboot system in diagnostic mode."
FixEscalate == "Halt operation immediately. Escalate to Senior Engineering for a 5-Whys Root Cause Analysis (RCA) before resuming."
FixTier1 == "Apply standard Tier-1 rework procedure and flag unit for secondary QA inspection."

\* word in desc, at position k
ContainsAt(desc, word, k) ==
    /\ k + Len(word) - 1 <= Len(desc)
    /\ \A j \in 1..Len(word) : desc[k + j - 1] = word[j]

\* word in desc
Contains(desc, word) == \E k \in 1..Len(desc) : ContainsAt(desc, word, k)

\* any(word in desc for word in words)
AnyWordIn(words, desc) == \E word \in words : Contains(desc, word)

\* Bug: the severity test comes before the keyword tests.
SuggestFix_SeverityFirst(d) ==
    LET desc == Lower(d.description)
    IN  IF GetImpactLevel(d) = "CRITICAL" THEN FixEscalate
        ELSE IF AnyWordIn(ElectricWords, desc) THEN FixElectric
        ELSE IF AnyWordIn(CosmeticWords, desc) THEN FixCosmetic
        ELSE IF AnyWordIn(HardwareWords, desc) THEN FixHardware
        ELSE IF AnyWordIn(SoftwareWords, desc) THEN FixSoftware
        ELSE FixTier1

\* ResolutionEngine.suggest_fix
SuggestFix(d) ==
    LET desc == Lower(d.description)
    IN  IF AnyWordIn(ElectricWords, desc) THEN FixElectric
        ELSE IF AnyWordIn(CosmeticWords, desc) THEN FixCosmetic
        ELSE IF AnyWordIn(HardwareWords, desc) THEN FixHardware
        ELSE IF AnyWordIn(SoftwareWords, desc) THEN FixSoftware
        ELSE IF GetImpactLevel(d) = "CRITICAL" THEN FixEscalate
        ELSE FixTier1

\* The script threads that share the cached controller.
Threads == {1, 2}

\* The manager signed in on the session a thread serves.
ManagerOf(t) == IF t = 1 THEN "M1" ELSE "M2"

NoArg == [op |-> "none"]
NoOutcome == [kind |-> "none"]
Returned == [kind |-> "return"]

\* A thread between two calls. pc is the statement it executes next; op,
\* target, removed and outcome tell of its latest call: the command, the
\* object it constructed or found, the objects its clear dropped from the
\* log, and what the call returned or raised. initial_count and kept are the
\* locals of clear_resolved_defects and remove_resolved_defects.
IdleThread ==
    [pc |-> "idle", op |-> "none", calls |-> 0, target |-> 0, initial_count |-> 0,
     kept |-> <<>>, removed |-> {}, outcome |-> NoOutcome]

Init ==
    /\ defects = <<>>
    /\ disk = [kind |-> "absent", log |-> <<>>]
    /\ clock = 0
    /\ nextUid = 1
    /\ lastOp = "init"
    /\ arg = NoArg
    /\ outcome = NoOutcome
    /\ cmdWrite = "none"
    /\ lastWrite = "none"
    /\ audit = <<>>
    /\ failures = 0
    /\ result = <<>>
    /\ threads = [t \in Threads |-> IdleThread]
    /\ heap = <<>>

\* Bug: the halt is never raised.
ReportOutcome_NoHalt(d) == Returned

\* TrackerController.report_defect: what the caller gets once the defect is
\* added and the save attempted
ReportOutcome(d) ==
    IF d.kind = "Critical"
    THEN [kind |-> "CriticalHaltException", description |-> d.description]
    ELSE Returned

\* Time passes.
Tick ==
    /\ UNCHANGED <<threads, heap>>
    /\ clock < MaxClock
    /\ clock' = clock + 1
    /\ lastOp' = "tick"
    /\ arg' = NoArg
    /\ outcome' = NoOutcome
    /\ cmdWrite' = "none"
    /\ audit' = <<>>
    /\ result' = <<>>
    /\ UNCHANGED <<defects, disk, nextUid, lastWrite, failures>>

\* TrackerController.report_defect on a freshly constructed defect
ReportDefect(inp, w) ==
    /\ UNCHANGED <<threads, heap>>
    /\ nextUid <= MaxReports
    /\ MayWrite(w)
    /\ LET d == NewDefect(nextUid, inp, clock)
           log == AddDefect(defects, d)
       IN  /\ defects' = log
           /\ disk' = ForceSaveData(disk, log, w)
           /\ cmdWrite' = WriteResult(w)
           /\ lastWrite' = WriteResult(w)
           /\ failures' = FailuresAfter(w)
           /\ audit' = SaveAudit(w) \o <<"INFO New defect logged">>
           /\ outcome' = ReportOutcome(d)
           /\ arg' = [op |-> "report", defect |-> d]
    /\ nextUid' = nextUid + 1
    /\ lastOp' = "report"
    /\ result' = <<>>
    /\ UNCHANGED clock

\* TrackerController.process_resolution. w is the outcome of the write the
\* command attempts; a command that attempts none takes the one value "ok".
ProcessResolution(defect_id, manager_name, details, w) ==
    /\ UNCHANGED <<threads, heap>>
    /\ lastOp' = "resolve"
    /\ arg' = [op |-> "resolve", defect_id |-> defect_id, manager_name |-> manager_name,
               details |-> details]
    /\ result' = <<>>
    /\ LET i == FindDefect(defects, defect_id)
       IN  IF i = 0
           THEN /\ w = "ok"
                /\ outcome' = [kind |-> "ValueError"]
                /\ cmdWrite' = "none"
                /\ audit' = <<>>
                /\ UNCHANGED <<defects, disk, lastWrite, failures>>
           ELSE IF ResolveRaises(defects[i])
           THEN /\ w = "ok"
                /\ outcome' = [kind |-> "DefectAlreadyResolvedException"]
                /\ cmdWrite' = "none"
                /\ audit' = <<>>
                /\ UNCHANGED <<defects, disk, lastWrite, failures>>
           ELSE LET log == [defects EXCEPT ![i] = Resolve(defects[i], manager_name, details, clock)]
                IN  /\ MayWrite(w)
                    /\ defects' = log
                    /\ disk' = ForceSaveData(disk, log, w)
                    /\ cmdWrite' = WriteResult(w)
                    /\ lastWrite' = WriteResult(w)
                    /\ failures' = FailuresAfter(w)
                    /\ audit' = SaveAudit(w)
                    /\ outcome' = Returned
    /\ UNCHANGED <<clock, nextUid>>

\* TrackerController.clear_resolved_defects
ClearResolvedDefects(w) ==
    /\ UNCHANGED <<threads, heap>>
    /\ lastOp' = "clear"
    /\ arg' = NoArg
    /\ result' = <<>>
    /\ LET initial_count == Len(defects)
           log == RemoveResolvedDefects(defects)
       IN  /\ defects' = log
           /\ IF initial_count # Len(log)
              THEN /\ MayWrite(w)
                   /\ disk' = ForceSaveData(disk, log, w)
                   /\ cmdWrite' = WriteResult(w)
                   /\ lastWrite' = WriteResult(w)
                   /\ failures' = FailuresAfter(w)
                   /\ audit' = SaveAudit(w)
                   /\ outcome' = Returned
              ELSE /\ w = "ok"
                   /\ outcome' = [kind |-> "RuntimeError"]
                   /\ cmdWrite' = "none"
                   /\ audit' = <<>>
                   /\ UNCHANGED <<disk, lastWrite, failures>>
    /\ UNCHANGED <<clock, nextUid>>

\* Bug: the list of the log itself is sorted, not a copy of it.
GetAllDefectsSorted_InPlace ==
    /\ UNCHANGED <<threads, heap>>
    /\ lastOp' = "sortedView"
    /\ arg' = NoArg
    /\ result' = Sorted(defects)
    /\ defects' = Sorted(defects)
    /\ outcome' = Returned
    /\ cmdWrite' = "none"
    /\ audit' = <<>>
    /\ UNCHANGED <<disk, clock, nextUid, lastWrite, failures>>

\* TrackerController.get_all_defects_sorted
GetAllDefectsSorted ==
    /\ UNCHANGED <<threads, heap>>
    /\ lastOp' = "sortedView"
    /\ arg' = NoArg
    /\ result' = Sorted(defects)
    /\ outcome' = Returned
    /\ cmdWrite' = "none"
    /\ audit' = <<>>
    /\ UNCHANGED <<defects, disk, clock, nextUid, lastWrite, failures>>

\* The table of the dashboard: get_aging of every defect of the sorted view
ShowAging ==
    /\ UNCHANGED <<threads, heap>>
    /\ lastOp' = "aging"
    /\ arg' = NoArg
    /\ result' = LET view == Sorted(defects)
                 IN  [i \in 1..Len(view) |->
                         [uid |-> view[i].uid, aging |-> GetAging(view[i], clock)]]
    /\ outcome' = Returned
    /\ cmdWrite' = "none"
    /\ audit' = <<>>
    /\ UNCHANGED <<defects, disk, clock, nextUid, lastWrite, failures>>

\* Time passes: datetime.now() reads delta seconds later.
Advance(delta) ==
    /\ UNCHANGED <<threads, heap>>
    /\ IF delta < SecondsPerHour
       THEN (clock % SecondsPerHour) + delta <= MaxOffset
       ELSE (clock \div SecondsPerHour) + (delta \div SecondsPerHour) <= MaxHours
    /\ clock' = clock + delta
    /\ lastOp' = "tick"
    /\ arg' = NoArg
    /\ outcome' = NoOutcome
    /\ cmdWrite' = "none"
    /\ audit' = <<>>
    /\ result' = <<>>
    /\ UNCHANGED <<defects, disk, nextUid, lastWrite, failures>>

\* "Generate Chart": TrackerController.count_defects_for_task
CountQuery(task_name) ==
    /\ UNCHANGED <<threads, heap>>
    /\ lastOp' = "count"
    /\ arg' = [op |-> "count", task_name |-> task_name]
    /\ result' = CountDefectsForTask(defects, task_name)
    /\ outcome' = Returned
    /\ cmdWrite' = "none"
    /\ audit' = <<>>
    /\ UNCHANGED <<defects, disk, clock, nextUid, lastWrite, failures>>

\* "Analyze": find the defect and, unless it is resolved, suggest a fix
Analyze(s_id) ==
    /\ UNCHANGED <<threads, heap>>
    /\ lastOp' = "analyze"
    /\ arg' = [op |-> "analyze", defect_id |-> s_id]
    /\ LET i == FindDefect(defects, s_id)
       IN  IF i = 0
           THEN outcome' = [kind |-> "Defect not found."] /\ result' = <<>>
           ELSE IF defects[i].is_resolved
           THEN outcome' = [kind |-> "Defect is already resolved."] /\ result' = <<>>
           ELSE outcome' = Returned /\ result' = SuggestFix(defects[i])
    /\ cmdWrite' = "none"
    /\ audit' = <<>>
    /\ UNCHANGED <<defects, disk, clock, nextUid, lastWrite, failures>>

\* The process restarts: TrackerController.__init__ runs load_data again.
Restart ==
    /\ UNCHANGED <<threads, heap>>
    /\ lastOp' = "restart"
    /\ arg' = NoArg
    /\ result' = <<>>
    /\ outcome' = NoOutcome
    /\ cmdWrite' = "none"
    /\ audit' = <<>>
    /\ defects' = LoadData(disk)
    /\ UNCHANGED <<disk, clock, nextUid, lastWrite, failures>>

\* ------------------------------------------------------------------------
\* Spec: the controller with its durable store. Writes of database.pkl may
\* fail and the process may restart; the clock stands still.
\* ------------------------------------------------------------------------
Report == \E inp \in DurableReportInputs, w \in WriteOutcomes : ReportDefect(inp, w)

ResolveCmd ==
    \E id \in QueryIds, r \in ResolveInputs, w \in WriteOutcomes :
        ProcessResolution(id, r.manager_name, r.details, w)

Clear == \E w \in WriteOutcomes : ClearResolvedDefects(w)

Next ==
    \/ Report
    \/ ResolveCmd
    \/ Clear
    \/ Restart

Spec == Init /\ [][Next]_vars

\* ------------------------------------------------------------------------
\* SpecTriage: the triage view. Time passes between commands and the sorted
\* view is queried; every write of database.pkl succeeds.
\* ------------------------------------------------------------------------
ReportOk == \E inp \in ReportInputs : ReportDefect(inp, "ok")

ResolveOk ==
    \E id \in QueryIds :
        ProcessResolution(id, "M1", "Fixed by manual protocol.", "ok")

ClearOk == ClearResolvedDefects("ok")

Count == \E task_name \in QueryTasks : CountQuery(task_name)

NextTriage ==
    \/ Tick
    \/ ReportOk
    \/ ResolveOk
    \/ ClearOk
    \/ GetAllDefectsSorted
    \/ Count

SpecTriage == Init /\ [][NextTriage]_vars

\* ------------------------------------------------------------------------
\* Properties
\* ------------------------------------------------------------------------
Indices(log) == DOMAIN log

\* The defect a lookup by id lands on: the first one, in insertion order,
\* whose id equals defect_id once both are lower-cased; 0 when there is none.
Matches(log, defect_id) == {i \in Indices(log) : Lower(log[i].id) = Lower(defect_id)}

FirstMatch(log, defect_id) ==
    IF Matches(log, defect_id) = {} THEN 0
    ELSE CHOOSE i \in Matches(log, defect_id) : \A j \in Matches(log, defect_id) : i <= j

\* C1. Resolve-once. In every step of a command: a defect that is resolved
\* keeps all its fields for as long as it is in the log (so it never turns
\* unresolved again and its resolved_by, resolution_details and resolved_at
\* stay as the first resolution set them); a resolve whose target is already
\* resolved raises DefectAlreadyResolvedException and changes nothing; and a
\* resolve returns normally only if its target was unresolved and is now
\* resolved with the caller's name and details.
ResolveOnceStep ==
    /\ lastOp' # "restart" =>
          \A i \in Indices(defects) : \A j \in Indices(defects') :
              (defects[i].is_resolved /\ defects'[j].uid = defects[i].uid)
                  => defects'[j] = defects[i]
    /\ lastOp' = "resolve" =>
          LET t == FirstMatch(defects, arg'.defect_id)
          IN  /\ (t # 0 /\ defects[t].is_resolved) =>
                    /\ outcome'.kind = "DefectAlreadyResolvedException"
                    /\ defects' = defects
                    /\ disk' = disk
              /\ outcome'.kind = "return" =>
                    /\ t # 0
                    /\ ~defects[t].is_resolved
                    /\ defects'[t].is_resolved
                    /\ defects'[t].resolved_by = arg'.manager_name
                    /\ defects'[t].resolution_details = arg'.details

ResolveOnce == [][ResolveOnceStep]_vars

\* A second resolve, by another manager, was rejected.
ResolveOnceWitness ==
    /\ lastOp = "resolve"
    /\ outcome.kind = "DefectAlreadyResolvedException"
    /\ LET t == FirstMatch(defects, arg.defect_id)
       IN  /\ t # 0
           /\ defects[t].is_resolved
           /\ defects[t].resolved_by # arg.manager_name
           /\ defects[t].resolution_details # arg.details

\* C2. Every defect in the log has resolved_at set exactly when is_resolved
\* is true, and the defect a report has just constructed is unresolved, with
\* resolved_at unset and resolution_details "Pending".
ResolvedAtIffResolved ==
    /\ \A i \in Indices(defects) : (defects[i].resolved_at # None) <=> defects[i].is_resolved
    /\ lastOp = "report" =>
          /\ ~arg.defect.is_resolved
          /\ arg.defect.resolved_at = None
          /\ arg.defect.resolution_details = "Pending"

\* After a failed write and a restart the log holds a resolved and an
\* unresolved defect.
ResolvedAtIffResolvedWitness ==
    /\ lastOp = "restart"
    /\ failures > 0
    /\ \E i, j \in Indices(defects) : defects[i].is_resolved /\ ~defects[j].is_resolved

\* The sorted view holds the defects of the log, each once.
IsViewOf(view, log) ==
    /\ Len(view) = Len(log)
    /\ \A i \in Indices(log) : \E j \in Indices(view) : view[j] = log[i]
    /\ \A i, j \in Indices(view) : view[i].uid = view[j].uid => i = j

\* C3. In the sorted view of the log every unresolved defect comes before
\* every resolved defect, whatever their severities and logged_at.
UnresolvedBeforeResolved ==
    lastOp = "sortedView" =>
        /\ IsViewOf(result, defects)
        /\ \A i, j \in Indices(result) :
              (~result[i].is_resolved /\ result[j].is_resolved) => i < j

\* The view holds an old unresolved Minor and a recent resolved Critical.
UnresolvedBeforeResolvedWitness ==
    /\ lastOp = "sortedView"
    /\ \E i, j \in Indices(result) :
          /\ ~result[i].is_resolved /\ result[i].kind = "Minor"
          /\ result[j].is_resolved /\ result[j].kind = "Critical"
          /\ result[i].logged_at < result[j].logged_at

\* C4. In the sorted view, of two defects with the same resolved-status the
\* one with the higher priority weight comes first: Critical (10) before
\* Minor (1), whatever their logged_at.
HigherWeightFirst ==
    lastOp = "sortedView" =>
        /\ IsViewOf(result, defects)
        /\ \A i \in Indices(result) :
              GetPriorityWeight(result[i]) = (IF result[i].kind = "Critical" THEN 10 ELSE 1)
        /\ \A i, j \in Indices(result) :
              (/\ result[i].is_resolved = result[j].is_resolved
               /\ result[i].kind = "Critical"
               /\ result[j].kind = "Minor") => i < j

\* The view holds an unresolved Critical and an unresolved Minor logged
\* later, which recency alone would put first.
HigherWeightFirstWitness ==
    /\ lastOp = "sortedView"
    /\ \E i, j \in Indices(result) :
          /\ ~result[i].is_resolved /\ ~result[j].is_resolved
          /\ result[i].kind = "Critical" /\ result[j].kind = "Minor"
          /\ result[i].logged_at < result[j].logged_at

\* C5. In the sorted view, of two defects with the same resolved-status and
\* the same severity the one with the strictly later logged_at comes first;
\* resolved defects too are ordered by logged_at, not by resolved_at.
LaterLoggedFirst ==
    lastOp = "sortedView" =>
        /\ IsViewOf(result, defects)
        /\ \A i, j \in Indices(result) :
              (/\ result[i].is_resolved = result[j].is_resolved
               /\ result[i].kind = result[j].kind
               /\ result[i].logged_at > result[j].logged_at) => i < j

\* The view holds two resolved defects of one severity, logged at different
\* times and resolved at the same time.
LaterLoggedFirstWitness ==
    /\ lastOp = "sortedView"
    /\ \E i, j \in Indices(result) :
          /\ result[i].is_resolved /\ result[j].is_resolved
          /\ result[i].kind = result[j].kind
          /\ result[i].logged_at > result[j].logged_at
          /\ result[i].resolved_at = result[j].resolved_at

\* The position of the defect with identity uid in log, 0 if it is not there.
PositionOf(log, uid) ==
    IF \E i \in Indices(log) : log[i].uid = uid
    THEN CHOOSE i \in Indices(log) : log[i].uid = uid
    ELSE 0

\* C6. clear_resolved_defects on a log without a resolved defect raises
\* RuntimeError ("No resolved defects found to clear."), leaves the log as it
\* was and attempts no write; on a log with a resolved defect it returns
\* normally, attempts a write, and keeps exactly the unresolved defects,
\* unchanged and in their original relative order.
ClearResolvedStep ==
    lastOp' = "clear" =>
        IF \A i \in Indices(defects) : ~defects[i].is_resolved
        THEN /\ outcome'.kind = "RuntimeError"
             /\ defects' = defects
             /\ disk' = disk
             /\ cmdWrite' = "none"
        ELSE /\ outcome'.kind = "return"
             /\ cmdWrite' # "none"
             /\ \A i \in Indices(defects) :
                   ~defects[i].is_resolved <=> \E j \in Indices(defects') : defects'[j] = defects[i]
             /\ \A j \in Indices(defects') : \E i \in Indices(defects) : defects[i] = defects'[j]
             /\ \A j, k \in Indices(defects') :
                   j < k => PositionOf(defects, defects'[j].uid) < PositionOf(defects, defects'[k].uid)

ClearResolved == [][ClearResolvedStep]_vars

\* A clear has succeeded and left two unresolved defects, the first and the
\* third reported, in that order.
ClearResolvedWitness ==
    /\ lastOp = "clear"
    /\ outcome.kind = "return"
    /\ Len(defects) = 2
    /\ defects[1].uid = 1
    /\ defects[2].uid = 3

\* C7 as claimed. A report of a Critical defect d raises CriticalHaltException
\* with d's description only once d is in the log and the whole log, d
\* included, is in database.pkl, and a later find by d's id and the sorted
\* view both return d; a report of a Minor defect returns normally.
CriticalHaltAfterDurableAdd ==
    lastOp = "report" =>
        LET d == arg.defect
        IN  IF d.kind = "Critical"
            THEN /\ outcome = [kind |-> "CriticalHaltException", description |-> d.description]
                 /\ defects # <<>>
                 /\ defects[Len(defects)] = d
                 /\ disk = [kind |-> "ok", log |-> defects]
                 /\ FindDefect(defects, d.id) # 0
                 /\ defects[FindDefect(defects, d.id)] = d
                 /\ \E i \in Indices(Sorted(defects)) : Sorted(defects)[i] = d
            ELSE outcome = Returned

\* C7 as amended. A report of a Critical defect d raises CriticalHaltException
\* with d's description once d is appended to the log and one write of the
\* whole log has been attempted: if the write succeeded database.pkl holds
\* the log with d, if it failed the halt is raised all the same and d is in
\* memory only. After the halt the sorted view holds d, and a find by d's id
\* returns the first defect of the log with that id, which is d when no
\* earlier defect shares it. A report of a Minor defect returns normally.
CriticalHaltAfterSaveAttempt ==
    lastOp = "report" =>
        LET d == arg.defect
            t == FirstMatch(defects, d.id)
        IN  /\ outcome = IF d.kind = "Critical"
                         THEN [kind |-> "CriticalHaltException", description |-> d.description]
                         ELSE Returned
            /\ defects # <<>>
            /\ defects[Len(defects)] = d
            /\ cmdWrite \in {"ok", "failed"}
            /\ cmdWrite = "ok" => disk = [kind |-> "ok", log |-> defects]
            /\ \E i \in Indices(Sorted(defects)) : Sorted(defects)[i] = d
            /\ FindDefect(defects, d.id) = t
            /\ t # 0
            /\ t = Len(defects) <=> \A i \in 1..(Len(defects) - 1) : Lower(defects[i].id) # Lower(d.id)

\* A Critical report whose write failed has raised the halt; the defect is
\* in the log and not in database.pkl.
CriticalHaltAfterSaveAttemptWitness ==
    /\ lastOp = "report"
    /\ arg.defect.kind = "Critical"
    /\ outcome.kind = "CriticalHaltException"
    /\ cmdWrite = "failed"
    /\ defects[Len(defects)] = arg.defect
    /\ \A i \in Indices(disk.log) : disk.log[i] # arg.defect

\* C8. process_resolution with an id that no defect of the log has, letter
\* case ignored, raises ValueError, changes no defect and no log content and
\* attempts no write; with an id that some defect has in any letter case it
\* never raises ValueError: it resolves the first such defect with the
\* caller's name and details, or raises DefectAlreadyResolvedException when
\* that defect is resolved already.
ResolveUnknownIdStep ==
    lastOp' = "resolve" =>
        LET t == FirstMatch(defects, arg'.defect_id)
        IN  IF t = 0
            THEN /\ outcome'.kind = "ValueError"
                 /\ defects' = defects
                 /\ disk' = disk
                 /\ cmdWrite' = "none"
                 /\ audit' = <<>>
            ELSE IF defects[t].is_resolved
            THEN outcome'.kind = "DefectAlreadyResolvedException"
            ELSE /\ outcome'.kind = "return"
                 /\ defects' = [defects EXCEPT ![t] =
                        [@ EXCEPT !.is_resolved = TRUE,
                                  !.resolved_by = arg'.manager_name,
                                  !.resolution_details = arg'.details,
                                  !.resolved_at = clock]]

ResolveUnknownId == [][ResolveUnknownIdStep]_vars

\* A resolve by "d1" has resolved the defect logged as "D1", and "D2" is an
\* id no defect of the log has.
ResolveUnknownIdWitness ==
    /\ lastOp = "resolve"
    /\ outcome.kind = "return"
    /\ arg.defect_id = Idd1
    /\ \E i \in Indices(defects) :
          /\ defects[i].id = IdD1
          /\ defects[i].is_resolved
          /\ defects[i].resolved_by = arg.manager_name
    /\ Matches(defects, IdD2) = {}

\* Commands that can change the log.
MutatingOps == {"report", "resolve", "clear"}

\* C9. Whenever the latest write attempt succeeded, database.pkl holds the
\* in-memory log and load_data returns a log equal to it; and every command
\* that changes the log attempts a write, which when it succeeds leaves the
\* whole new log in database.pkl.
DurableAfterWrite ==
    lastWrite = "ok" =>
        /\ disk.kind = "ok"
        /\ disk.log = defects
        /\ LoadData(disk) = defects

WriteOnMutationStep ==
    (lastOp' \in MutatingOps /\ defects' # defects) =>
        /\ cmdWrite' # "none"
        /\ cmdWrite' = "ok" => (disk'.kind = "ok" /\ disk'.log = defects')

DurableReflectsLog == []DurableAfterWrite /\ [][WriteOnMutationStep]_vars

\* After a failed write, a later successful write and a restart, the log in
\* memory is the non-empty log of database.pkl.
DurableReflectsLogWitness ==
    /\ lastOp = "restart"
    /\ lastWrite = "ok"
    /\ failures > 0
    /\ Len(defects) >= 2
    /\ \E i \in Indices(defects) : defects[i].is_resolved

\* C10. A command whose write of database.pkl fails logs an ERROR line to
\* the audit log, keeps its in-memory change, and reports to its caller what
\* it reports when the write succeeds: a normal return, or the
\* CriticalHaltException of a Critical report; no other exception.
WriteFailureSwallowedStep ==
    cmdWrite' = "failed" =>
        /\ \E k \in Indices(audit') : audit'[k] = "ERROR Failed to save database state"
        /\ lastOp' \in MutatingOps
        /\ lastOp' = "report" =>
              /\ defects' = Append(defects, arg'.defect)
              /\ outcome' = IF arg'.defect.kind = "Critical"
                            THEN [kind |-> "CriticalHaltException",
                                  description |-> arg'.defect.description]
                            ELSE Returned
        /\ lastOp' = "resolve" =>
              /\ outcome' = Returned
              /\ \E i \in Indices(defects) :
                    /\ ~defects[i].is_resolved
                    /\ defects'[i].is_resolved
                    /\ defects'[i].resolved_by = arg'.manager_name
        /\ lastOp' = "clear" =>
              /\ outcome' = Returned
              /\ Len(defects') < Len(defects)
              /\ \A j \in Indices(defects') : ~defects'[j].is_resolved

WriteFailureSwallowed == [][WriteFailureSwallowedStep]_vars

\* A clear whose write failed has returned normally: the resolved defect is
\* gone from memory and still in database.pkl.
WriteFailureSwallowedWitness ==
    /\ lastOp = "clear"
    /\ cmdWrite = "failed"
    /\ outcome = Returned
    /\ disk.kind = "ok"
    /\ \E i \in Indices(disk.log) : disk.log[i].is_resolved

\* C11. A restart never fails on database.pkl: when the file is missing or
\* unreadable the controller starts with an empty log, when it is readable
\* the log is exactly the pickled one; the file is left as it was, and the
\* report that follows a restart is accepted as any other.
StartupStep ==
    /\ lastOp' = "restart" =>
          /\ disk' = disk
          /\ disk.kind = "ok" => defects' = disk.log
          /\ disk.kind \in {"absent", "corrupt"} => defects' = <<>>
    /\ (lastOp = "restart" /\ lastOp' = "report") =>
          /\ defects' = Append(defects, arg'.defect)
          /\ outcome'.kind \in {"return", "CriticalHaltException"}

Startup == [][StartupStep]_vars

\* A restart has found database.pkl unreadable and started with an empty
\* log, after a defect had been reported.
StartupWitness ==
    /\ lastOp = "restart"
    /\ disk.kind = "corrupt"
    /\ defects = <<>>
    /\ nextUid > 1

\* Two letters that differ at most in case.
SameLetter(a, b) ==
    \/ a = b
    \/ a \in 65..90 /\ b = a + 32
    \/ b \in 65..90 /\ a = b + 32

EqualIgnoringCase(s, t) ==
    /\ Len(s) = Len(t)
    /\ \A k \in 1..Len(s) : SameLetter(s[k], t[k])

\* C12. count_defects_for_task returns the number of defects of the log,
\* resolved or not, whose task name is the argument up to letter case, 0
\* when there is none, and leaves the log and database.pkl as they were.
CountForTaskState ==
    lastOp = "count" =>
        /\ result = Cardinality({i \in Indices(defects) :
                                   EqualIgnoringCase(defects[i].task_name, arg.task_name)})
        /\ (\A i \in Indices(defects) : ~EqualIgnoringCase(defects[i].task_name, arg.task_name))
              => result = 0

CountForTaskStep ==
    lastOp' = "count" => (defects' = defects /\ disk' = disk /\ cmdWrite' = "none")

CountForTask == []CountForTaskState /\ [][CountForTaskStep]_vars

\* A count for "t" has returned 2: a resolved defect of task "T" and an
\* unresolved one of task "t"; a third defect, of task "U", is not counted.
CountForTaskWitness ==
    /\ lastOp = "count"
    /\ arg.task_name = Taskt
    /\ result = 2
    /\ Len(defects) = 3
    /\ \E i, j \in Indices(defects) :
          /\ defects[i].task_name = TaskT /\ defects[i].is_resolved
          /\ defects[j].task_name = Taskt /\ ~defects[j].is_resolved

\* ------------------------------------------------------------------------
\* SpecSuggest: one defect is reported, with any of the descriptions of
\* SuggestDescs and either severity, and analysed or resolved.
\* ------------------------------------------------------------------------
ReportForAnalysis == \E inp \in SuggestInputs : nextUid = 1 /\ ReportDefect(inp, "ok")

AnalyzeCmd == \E s_id \in QueryIds : Analyze(s_id)

NextSuggest ==
    \/ ReportForAnalysis
    \/ AnalyzeCmd
    \/ ResolveOk

SpecSuggest == Init /\ [][NextSuggest]_vars

\* A keyword of the set occurs in the description, letter case ignored.
Occurs(words, description) ==
    \E word \in words : \E a \in 0..Len(description) : \E b \in a..Len(description) :
        EqualIgnoringCase(SubSeq(description, a + 1, b), word)

\* C13. The suggestion for a defect is the text of the first of the sets
\* electrical, cosmetic, missing-hardware, software a keyword of which occurs
\* in the lower-cased description, whatever the severity; when no keyword of
\* any set occurs it is the escalation text for a Critical defect and the
\* Tier-1 text for a Minor one. The analysis changes no defect.
SuggestByKeywordState ==
    (lastOp = "analyze" /\ outcome = Returned) =>
        LET d == defects[FirstMatch(defects, arg.defect_id)]
            E == Occurs(ElectricWords, d.description)
            C == Occurs(CosmeticWords, d.description)
            H == Occurs(HardwareWords, d.description)
            S == Occurs(SoftwareWords, d.description)
        IN  /\ result = FixElectric <=> E
            /\ result = FixCosmetic <=> (~E /\ C)
            /\ result = FixHardware <=> (~E /\ ~C /\ H)
            /\ result = FixSoftware <=> (~E /\ ~C /\ ~H /\ S)
            /\ result = FixEscalate <=> (~E /\ ~C /\ ~H /\ ~S /\ d.kind = "Critical")
            /\ result = FixTier1 <=> (~E /\ ~C /\ ~H /\ ~S /\ d.kind = "Minor")

SuggestByKeywordStep ==
    lastOp' = "analyze" => (defects' = defects /\ disk' = disk /\ cmdWrite' = "none")

SuggestByKeyword == []SuggestByKeywordState /\ [][SuggestByKeywordStep]_vars

\* The Critical defect "PAINTWire", which has a cosmetic keyword before an
\* electrical one, got the electrical text.
SuggestByKeywordWitness ==
    /\ lastOp = "analyze"
    /\ Len(defects) = 1
    /\ defects[1].description = FragPAINT \o FragWire
    /\ defects[1].kind = "Critical"
    /\ result = FixElectric

\* ------------------------------------------------------------------------
\* SpecAging: the clock counts seconds; one Minor defect is reported and
\* resolved while time passes, and the table shows its age.
\* ------------------------------------------------------------------------
AgingSteps == {TickSeconds, SecondsPerMinute, SecondsPerHour}

AgingInput == CHOOSE inp \in ReportInputs : inp.id = IdD2

AdvanceClock == \E delta \in AgingSteps : Advance(delta)

ReportOne == nextUid = 1 /\ ReportDefect(AgingInput, "ok")

NextAging ==
    \/ AdvanceClock
    \/ ReportOne
    \/ ResolveOk
    \/ ShowAging

SpecAging == Init /\ [][NextAging]_vars

\* An age in hours and minutes.
HoursMinutes(seconds) == <<seconds \div 3600, (seconds \div 60) % 60>>

\* age a is shorter than age b
AgeLess(a, b) == a[1] < b[1] \/ (a[1] = b[1] /\ a[2] < b[2])

\* The age shown for a resolved defect is resolved_at - logged_at in hours
\* and minutes, whatever the clock reads; the age shown for an unresolved
\* one is measured to the current reading of the clock.
AgingShown ==
    lastOp = "aging" =>
        /\ Len(result) = Len(defects)
        /\ \A i \in Indices(defects) :
              \E j \in Indices(result) :
                  /\ result[j].uid = defects[i].uid
                  /\ result[j].aging =
                        IF defects[i].is_resolved
                        THEN HoursMinutes(defects[i].resolved_at - defects[i].logged_at)
                        ELSE HoursMinutes(clock - defects[i].logged_at)

\* The age of a resolved defect does not change as the clock advances.
AgingFixedOnceResolved ==
    \A i \in Indices(defects) :
        (clock' > clock /\ defects[i].is_resolved) =>
            GetAging(defects[i], clock') = GetAging(defects[i], clock)

\* Showing the ages changes no defect.
AgingMutatesNothing == lastOp' = "aging" => defects' = defects

\* C14 as stated. The age of a resolved defect is resolved_at - logged_at
\* in hours and minutes and does not change as the clock advances; the age
\* of an unresolved defect is computed from the current time and strictly
\* increases whenever the clock advances; computing it mutates nothing.
AgingStrictlyIncreasesStep ==
    /\ AgingFixedOnceResolved
    /\ AgingMutatesNothing
    /\ \A i \in Indices(defects) :
          (clock' > clock /\ ~defects[i].is_resolved) =>
              AgeLess(GetAging(defects[i], clock), GetAging(defects[i], clock'))

AgingStrictlyIncreases == []AgingShown /\ [][AgingStrictlyIncreasesStep]_vars

\* C14, amended. As above, except that the age of an unresolved defect, being
\* cut to whole minutes, never decreases as the clock advances and strictly
\* increases whenever the clock advances by at least one minute.
AgingByWholeMinutesStep ==
    /\ AgingFixedOnceResolved
    /\ AgingMutatesNothing
    /\ \A i \in Indices(defects) :
          (clock' > clock /\ ~defects[i].is_resolved) =>
              /\ ~AgeLess(GetAging(defects[i], clock'), GetAging(defects[i], clock))
              /\ clock' - clock >= 60 =>
                    AgeLess(GetAging(defects[i], clock), GetAging(defects[i], clock'))

AgingByWholeMinutes == []AgingShown /\ [][AgingByWholeMinutesStep]_vars

\* A defect resolved 1h 1m after it was logged is shown with that age at a
\* later reading of the clock.
AgingByWholeMinutesWitness ==
    /\ lastOp = "aging"
    /\ Len(defects) = 1
    /\ defects[1].is_resolved
    /\ defects[1].resolved_at - defects[1].logged_at = 3660
    /\ clock > defects[1].resolved_at
    /\ result[1].aging = <<1, 1>>

\* The defects of the log that carry the id, letter case ignored.
Duplicates(log, defect_id) == {i \in Indices(log) : EqualIgnoringCase(log[i].id, defect_id)}

\* C15. A report appends its defect to the log whether or not a defect of the
\* log already has its id. A resolve by an id that several defects carry (up
\* to letter case) acts on the earliest-inserted of them: every other defect,
\* later duplicates included, is left as it was; when the earliest is
\* unresolved it is the one resolved; when it is resolved the resolve raises
\* DefectAlreadyResolvedException and changes nothing, even if a later
\* duplicate is unresolved.
DuplicateIdsStep ==
    /\ lastOp' = "report" =>
          /\ defects' = Append(defects, arg'.defect)
          /\ outcome'.kind \in {"return", "CriticalHaltException"}
    /\ lastOp' = "resolve" =>
          LET dup == Duplicates(defects, arg'.defect_id)
          IN  /\ Len(defects') = Len(defects)
              /\ \A i \in Indices(defects) :
                    (\E j \in dup : j < i) \/ i \notin dup => defects'[i] = defects[i]
              /\ \A t \in dup :
                    (\A j \in dup : t <= j) =>
                        IF defects[t].is_resolved
                        THEN /\ outcome'.kind = "DefectAlreadyResolvedException"
                             /\ defects' = defects
                        ELSE /\ outcome'.kind = "return"
                             /\ defects'[t].is_resolved
                             /\ defects'[t].resolved_by = arg'.manager_name

DuplicateIds == [][DuplicateIdsStep]_vars

\* A resolve was rejected because the earliest defect with the id is resolved
\* while a later defect with the same id is not.
DuplicateIdsWitness ==
    /\ lastOp = "resolve"
    /\ outcome.kind = "DefectAlreadyResolvedException"
    /\ \E i, j \in Duplicates(defects, arg.defect_id) :
          i < j /\ defects[i].is_resolved /\ ~defects[j].is_resolved

\* Two defects the three tiers of the ordering do not tell apart.
Tied(d, e) ==
    /\ d.is_resolved = e.is_resolved
    /\ GetPriorityWeight(d) = GetPriorityWeight(e)
    /\ d.logged_at = e.logged_at

\* C16. The sorted view holds every defect of the log exactly once, defects
\* with equal ids included, and any two of its defects with equal resolved
\* status, equal priority weight and equal logged_at stand in the order in
\* which they were inserted into the log.
TiesKeepInsertionOrder ==
    lastOp = "sortedView" =>
        /\ IsViewOf(result, defects)
        /\ \A a, b \in Indices(result) :
              (a < b /\ Tied(result[a], result[b])) =>
                  PositionOf(defects, result[a].uid) < PositionOf(defects, result[b].uid)

\* The view holds two tied defects with the same id behind a defect that was
\* inserted after them.
TiesKeepInsertionOrderWitness ==
    /\ lastOp = "sortedView"
    /\ \E a, b, c \in Indices(result) :
          /\ c < a /\ a < b
          /\ Tied(result[a], result[b])
          /\ EqualIgnoringCase(result[a].id, result[b].id)
          /\ PositionOf(defects, result[c].uid) > PositionOf(defects, result[b].uid)

\* C17. A command whose write of database.pkl fails leaves in the file the log
\* of the last successful write, so that load_data at a restart returns that
\* log and not an empty or partial one; and after a successful write
\* load_data returns the in-memory log again.
FailedWriteKeepsDurableStep ==
    /\ cmdWrite' = "failed" => LoadData(disk') = LoadData(disk)
    /\ cmdWrite' = "ok" => LoadData(disk') = defects'
    /\ lastOp' = "restart" => (disk' = disk /\ defects' = LoadData(disk'))

FailedWriteKeepsDurable == [][FailedWriteKeepsDurableStep]_vars

\* C18. get_all_defects_sorted sorts a copy: across it the log holds the same
\* defects in the same insertion order with every field as before, no write
\* of database.pkl is attempted and the file is as it was; so the defect a
\* lookup by id lands on and the order in which clear_resolved_defects would
\* leave the unresolved defects are the same after it as before it.
SortedViewPureStep ==
    lastOp' = "sortedView" =>
        /\ Len(defects') = Len(defects)
        /\ \A i \in Indices(defects) : defects'[i] = defects[i]
        /\ cmdWrite' = "none" /\ lastWrite' = lastWrite /\ disk' = disk
        /\ \A defect_id \in QueryIds :
              FirstMatch(defects', defect_id) = FirstMatch(defects, defect_id)
        /\ SelectSeq(defects', Unresolved) = SelectSeq(defects, Unresolved)

SortedViewPure == [][SortedViewPureStep]_vars

\* A view was returned whose order is not the insertion order, with two
\* defects of the same id standing in it in the opposite order.
SortedViewPureWitness ==
    /\ lastOp = "sortedView"
    /\ result # defects
    /\ \E a, b \in Indices(result) :
          /\ a < b
          /\ EqualIgnoringCase(result[a].id, result[b].id)
          /\ PositionOf(defects, result[a].uid) > PositionOf(defects, result[b].uid)

\* ------------------------------------------------------------------------
\* SpecConc: two script threads call the one cached controller, each
\* statement of a command being one step. Writes of database.pkl succeed.
\* ------------------------------------------------------------------------
\* self.<field> = value on the object uid, which the log may or may not hold
SetAttr(uid, field, value) ==
    /\ heap' = [heap EXCEPT ![uid] = [@ EXCEPT ![field] = value]]
    /\ defects' = [i \in DOMAIN defects |->
                     IF defects[i].uid = uid
                     THEN [defects[i] EXCEPT ![field] = value]
                     ELSE defects[i]]

\* The objects of identities uids, as they are now
Objects(uids) == [i \in DOMAIN uids |-> heap[uids[i]]]

Uids(log) == [i \in DOMAIN log |-> log[i].uid]

\* What a statement that is not a save leaves alone
NoSave == cmdWrite' = "none" /\ UNCHANGED <<disk, lastWrite>>

\* force_save_data, the write succeeding
Save ==
    /\ disk' = ForceSaveData(disk, defects, "ok")
    /\ cmdWrite' = "ok"
    /\ lastWrite' = "ok"

ThreadStep(t, next) ==
    /\ threads' = [threads EXCEPT ![t] = next]
    /\ lastOp' = "thread"
    /\ arg' = NoArg
    /\ outcome' = NoOutcome
    /\ audit' = <<>>
    /\ result' = <<>>
    /\ UNCHANGED <<clock, failures>>

Begin(t, op) ==
    [IdleThread EXCEPT !.op = op, !.calls = threads[t].calls + 1]

Finish(t, outcome_) ==
    [threads[t] EXCEPT !.pc = "idle", !.outcome = outcome_]

MayCall(t) == threads[t].pc = "idle" /\ threads[t].calls < MaxCalls

\* DefectFactory.create_defect, then report_defect: add_defect
ReportAdd(t) ==
    /\ MayCall(t)
    /\ nextUid <= MaxReports
    /\ LET d == NewDefect(nextUid, AgingInput, clock)
       IN  /\ heap' = Append(heap, d)
           /\ defects' = AddDefect(defects, d)
           /\ ThreadStep(t, [Begin(t, "report") EXCEPT !.pc = "report_save", !.target = d.uid])
    /\ nextUid' = nextUid + 1
    /\ NoSave

\* report_defect: force_save_data, the audit line, and the return
ReportSave(t) ==
    /\ threads[t].pc = "report_save"
    /\ Save
    /\ ThreadStep(t, Finish(t, ReportOutcome(heap[threads[t].target])))
    /\ UNCHANGED <<defects, heap, nextUid>>

\* process_resolution: find_defect
ResolveFind(t) ==
    /\ MayCall(t)
    /\ LET i == FindDefect(defects, IdD2)
       IN  IF i = 0
           THEN ThreadStep(t, [Begin(t, "resolve") EXCEPT !.outcome = [kind |-> "ValueError"]])
           ELSE ThreadStep(t, [Begin(t, "resolve") EXCEPT !.pc = "resolve_guard",
                                                         !.target = defects[i].uid])
    /\ NoSave
    /\ UNCHANGED <<defects, heap, nextUid>>

\* Defect.resolve: if self.is_resolved: raise
ResolveGuard(t) ==
    /\ threads[t].pc = "resolve_guard"
    /\ IF ResolveRaises(heap[threads[t].target])
       THEN ThreadStep(t, Finish(t, [kind |-> "DefectAlreadyResolvedException"]))
       ELSE ThreadStep(t, [threads[t] EXCEPT !.pc = "set_is_resolved"])
    /\ NoSave
    /\ UNCHANGED <<defects, heap, nextUid>>

\* self.is_resolved = True
SetIsResolved(t) ==
    /\ threads[t].pc = "set_is_resolved"
    /\ SetAttr(threads[t].target, "is_resolved", TRUE)
    /\ ThreadStep(t, [threads[t] EXCEPT !.pc = "set_resolved_by"])
    /\ NoSave
    /\ UNCHANGED nextUid

\* self.resolved_by = resolver_name
SetResolvedBy(t) ==
    /\ threads[t].pc = "set_resolved_by"
    /\ SetAttr(threads[t].target, "resolved_by", ManagerOf(t))
    /\ ThreadStep(t, [threads[t] EXCEPT !.pc = "set_resolution_details"])
    /\ NoSave
    /\ UNCHANGED nextUid

\* self.resolution_details = details
SetResolutionDetails(t) ==
    /\ threads[t].pc = "set_resolution_details"
    /\ SetAttr(threads[t].target, "resolution_details", "Fixed by manual protocol.")
    /\ ThreadStep(t, [threads[t] EXCEPT !.pc = "set_resolved_at"])
    /\ NoSave
    /\ UNCHANGED nextUid

\* self.resolved_at = datetime.now()
SetResolvedAt(t) ==
    /\ threads[t].pc = "set_resolved_at"
    /\ SetAttr(threads[t].target, "resolved_at", clock)
    /\ ThreadStep(t, [threads[t] EXCEPT !.pc = "resolve_save"])
    /\ NoSave
    /\ UNCHANGED nextUid

\* process_resolution: force_save_data, and the return
ResolveSave(t) ==
    /\ threads[t].pc = "resolve_save"
    /\ Save
    /\ ThreadStep(t, Finish(t, Returned))
    /\ UNCHANGED <<defects, heap, nextUid>>

\* clear_resolved_defects: initial_count = len(...)
ClearCount(t) ==
    /\ MayCall(t)
    /\ ThreadStep(t, [Begin(t, "clear") EXCEPT !.pc = "clear_filter",
                                               !.initial_count = Len(defects)])
    /\ NoSave
    /\ UNCHANGED <<defects, heap, nextUid>>

\* remove_resolved_defects: [d for d in self.defects if not d.is_resolved]
ClearFilter(t) ==
    /\ threads[t].pc = "clear_filter"
    /\ ThreadStep(t, [threads[t] EXCEPT !.pc = "clear_assign",
                                        !.kept = Uids(RemoveResolvedDefects(defects))])
    /\ NoSave
    /\ UNCHANGED <<defects, heap, nextUid>>

\* remove_resolved_defects: self.defects = <the new list>
ClearAssign(t) ==
    /\ threads[t].pc = "clear_assign"
    /\ defects' = Objects(threads[t].kept)
    /\ ThreadStep(t, [threads[t] EXCEPT
            !.pc = "clear_compare",
            !.kept = <<>>,
            !.removed = {defects[i].uid : i \in DOMAIN defects}
                            \ {threads[t].kept[i] : i \in DOMAIN threads[t].kept}])
    /\ NoSave
    /\ UNCHANGED <<heap, nextUid>>

\* clear_resolved_defects: if initial_count != len(...): ... else: raise
ClearCompare(t) ==
    /\ threads[t].pc = "clear_compare"
    /\ IF threads[t].initial_count # Len(defects)
       THEN ThreadStep(t, [threads[t] EXCEPT !.pc = "clear_save"])
       ELSE ThreadStep(t, Finish(t, [kind |-> "RuntimeError"]))
    /\ NoSave
    /\ UNCHANGED <<defects, heap, nextUid>>

\* clear_resolved_defects: force_save_data, and the return
ClearSave(t) ==
    /\ threads[t].pc = "clear_save"
    /\ Save
    /\ ThreadStep(t, Finish(t, Returned))
    /\ UNCHANGED <<defects, heap, nextUid>>

NextConc ==
    \E t \in Threads :
        \/ ReportAdd(t)
        \/ ReportSave(t)
        \/ ResolveFind(t)
        \/ ResolveGuard(t)
        \/ SetIsResolved(t)
        \/ SetResolvedBy(t)
        \/ SetResolutionDetails(t)
        \/ SetResolvedAt(t)
        \/ ResolveSave(t)
        \/ ClearCount(t)
        \/ ClearFilter(t)
        \/ ClearAssign(t)
        \/ ClearCompare(t)
        \/ ClearSave(t)

SpecConc == Init /\ [][NextConc]_vars

\* The thread has completed a call of the command.
Completed(t, op) == threads[t].pc = "idle" /\ threads[t].op = op

\* Two calls of resolve that landed on the same defect did not both return
\* normally.
OneResolveSucceeds ==
    \A t, u \in Threads :
        (/\ t # u
         /\ Completed(t, "resolve") /\ Completed(u, "resolve")
         /\ threads[t].target # 0 /\ threads[t].target = threads[u].target)
            => ~(threads[t].outcome = Returned /\ threads[u].outcome = Returned)

\* A resolution field that has been written is not written over.
ResolutionWrittenOnce ==
    \A uid \in DOMAIN heap :
        /\ heap[uid].resolved_by # "None" => heap'[uid].resolved_by = heap[uid].resolved_by
        /\ heap[uid].resolution_details # "Pending" =>
              heap'[uid].resolution_details = heap[uid].resolution_details
        /\ heap[uid].resolved_at # None => heap'[uid].resolved_at = heap[uid].resolved_at

\* C19. When two threads call process_resolution for the same unresolved
\* defect, their statements interleaved in any way, one call returns and the
\* other raises DefectAlreadyResolvedException, and resolved_by,
\* resolution_details and resolved_at of the defect are written once.
ConcurrentResolveOnce == []OneResolveSucceeds /\ [][ResolutionWrittenOnce]_vars

\* A clear that raised RuntimeError ("No resolved defects found to clear.")
\* dropped no defect from the log, and a clear that dropped one went on to
\* its save and returned.
ClearReportsItsRemovals ==
    \A t \in Threads :
        Completed(t, "clear") =>
            /\ threads[t].outcome.kind = "RuntimeError" => threads[t].removed = {}
            /\ threads[t].removed # {} => threads[t].outcome = Returned

\* The defect of a completed report is in the log unless it is resolved.
ReportedStaysLogged ==
    \A t \in Threads :
        Completed(t, "report") =>
            \/ \E i \in Indices(defects) : defects[i].uid = threads[t].target
            \/ heap[threads[t].target].is_resolved

\* C20. When report_defect and clear_resolved_defects run on two threads,
\* their statements interleaved in any way, the clear raises RuntimeError
\* only if it removed no defect, every removal is followed by the clear's
\* save, and no defect whose report completed is missing from the log unless
\* it was resolved and cleared.
ConcurrentReportAndClear == ClearReportsItsRemovals /\ ReportedStaysLogged

====
